---------------------------- MODULE Spec2Model ----------------------------
(***************************************************************************)
(* Model of the ILOSTAT query / caching core:                              *)
(*   - the region-index crawler script        (src/countries.py)           *)
(*   - the query object ILOStatQuery          (src/ilostat/_query.py)      *)
(*   - the data-fetch handler set_dataframe   (src/app/controller.py)      *)
(* The crawler is checked under SpecCrawl, the query path under SpecQuery. *)
(***************************************************************************)
EXTENDS Integers, Sequences, FiniteSets, TLC

(***************************************************************************)
(* Bounds of the model.                                                    *)
(***************************************************************************)
NumDataflows == 2      \* dataflows in the remote catalog
MaxConstraints == 2    \* constraints attached to one dataflow
MaxRegions == 2        \* content regions of one constraint
MaxRuns == 2           \* executions of the crawler script against one database
MaxRequests == 2       \* set_dataframe requests served by the process
MaxGroups == 2         \* result groups (data sets) in one data message

(***************************************************************************)
(* The remote catalog and the values the remote API can serve.             *)
(***************************************************************************)
AllDataflowIds == <<"DF_X", "DF_Y", "DF_Z", "DF_W">>
Catalog == SubSeq(AllDataflowIds, 1, NumDataflows)
DataflowIds == {Catalog[i] : i \in 1..Len(Catalog)}

RegionOrder == <<"ITA", "FRA">>
Regions == {RegionOrder[i] : i \in 1..Len(RegionOrder)}

SeqsUpTo(S, n) == UNION {[1..k -> S] : k \in 0..n}

\* The value lists a REF_AREA member selection can carry: every subset of the
\* region codes, listed in the catalog's order.
ValueLists == {SelectSeq(RegionOrder, LAMBDA r : r \in S) : S \in SUBSET Regions}

\* cr.member: a mapping from dimension key to the selected values.  A content
\* region either constrains REF_AREA or constrains another dimension only.
Members == {[REF_AREA |-> v] : v \in ValueLists} \cup {[SEX |-> <<"SEX_T">>]}
ContentRegions == [member : Members]
Constraints == [data_content_region : SeqsUpTo(ContentRegions, MaxRegions)]

VARIABLES
    \* ---- crawler script (src/countries.py) ----
    pc,                  \* position of the script
    exc,                 \* the exception that ended the script, or "none"
    runs,                \* executions of the script started so far
    dataflows_ids,       \* line 19
    di,                  \* dataflows the for loop of line 25 has taken
    dataflow_id,         \* line 25
    nconstraints,        \* len(constraint_ids), line 34
    ci,                  \* constraints the for loop of line 37 has taken
    member_values,       \* line 52
    vi,                  \* values the for loop of line 55 has taken
    dataflows_processed, \* lines 22, 64
    pending,             \* rows executed on the connection, not yet committed
    store,               \* committed rows of table dataflows: row -> count
    served,              \* (region, dataflow) pairs of the first content
                         \* regions the remote has served so far
    later_codes,         \* region codes the remote has served in content
                         \* regions after the first
    \* ---- query path (controller.py, _query.py) ----
    qpc,                 \* position of the request
    request,             \* arguments of the current set_dataframe call
    query,               \* the ILOStatQuery object of the request
    sent,                \* what the request handed to the remote data query
    response,            \* what the remote data query answered
    outcome,             \* how the request ended
    result,              \* the rows returned by ILOStatQuery.data
    structFetches,       \* remote structure fetches per dataflow id
    nreq                 \* requests started so far

crawlVars == <<pc, exc, runs, dataflows_ids, di, dataflow_id, nconstraints,
               ci, member_values, vi, dataflows_processed, pending, store,
               served, later_codes>>
queryVars == <<qpc, request, query, sent, response, outcome, result,
               structFetches, nreq>>
vars == <<crawlVars, queryVars>>

(***************************************************************************)
(* The region index: table dataflows(region, dataflow).                    *)
(***************************************************************************)
Rows == Regions \X DataflowIds

\* init_db() (countries.py line 6 calls it): the table is created if absent;
\* it carries no uniqueness constraint, so it is a multiset of rows, and the
\* rows of an existing table are kept.
init_db(table) == table

EmptyTable == [r \in Rows |-> 0]

\* INSERT INTO dataflows(region, dataflow) VALUES(?, ?)
Insert(rows, region, dataflow) == Append(rows, <<region, dataflow>>)

Occurrences(rows, r) == Cardinality({i \in 1..Len(rows) : rows[i] = r})

\* con.commit(): the executed rows become durable.
Commit(table, rows) == [r \in Rows |-> table[r] + Occurrences(rows, r)]

StoreSet == {r \in Rows : store[r] > 0}

(***************************************************************************)
(* Crawler: src/countries.py                                               *)
(***************************************************************************)
Running == {"L16", "L25", "L37", "L55", "L59"}
Terminal == {"done", "raised", "crashed"}

LastContentRegion(c) == c.data_content_region[Len(c.data_content_region)]

\* Line 43: constraint.data_content_region[0]
FirstContentRegion(c) == c.data_content_region[1]

\* What the remote catalog declares for constraint c of dataflow d: the
\* region codes permitted by the REF_AREA member set of its first content
\* region, each paired with d.
ServedBy(c, d) ==
    IF c.data_content_region # <<>>
       /\ "REF_AREA" \in DOMAIN c.data_content_region[1].member
    THEN LET v == c.data_content_region[1].member.REF_AREA
         IN  {<<v[i], d>> : i \in 1..Len(v)}
    ELSE {}

\* The region codes constraint c carries in content regions after the first.
LaterCodes(c) ==
    LET crs == c.data_content_region
    IN  UNION {IF "REF_AREA" \in DOMAIN crs[j].member
               THEN {crs[j].member.REF_AREA[i] :
                        i \in 1..Len(crs[j].member.REF_AREA)}
               ELSE {} : j \in 2..Len(crs)}

Raise(e) ==
    /\ pc' = "raised"
    /\ exc' = e

\* Lines 16-22: list the dataflows of the catalog.
ListDataflows ==
    /\ pc = "L16"
    /\ \/ /\ dataflows_ids' = Catalog
          /\ pc' = "L25"
          /\ UNCHANGED exc
       \/ /\ Raise("TransportError")
          /\ UNCHANGED dataflows_ids
    /\ UNCHANGED <<queryVars, runs, di, dataflow_id, nconstraints, ci,
                   member_values, vi, dataflows_processed, pending, store,
                   served, later_codes>>

\* Lines 25-34: take the next dataflow id and fetch its constraints.  The
\* fetch is not guarded: a failure ends the script.
NextDataflow ==
    /\ pc = "L25"
    /\ di < Len(dataflows_ids)
    /\ di' = di + 1
    /\ dataflow_id' = dataflows_ids[di + 1]
    /\ \/ /\ \E n \in 0..MaxConstraints : nconstraints' = n
          /\ ci' = 0
          /\ pc' = "L37"
          /\ UNCHANGED exc
       \/ /\ Raise("TransportError")
          /\ UNCHANGED <<nconstraints, ci>>
    /\ UNCHANGED <<queryVars, runs, dataflows_ids, member_values, vi,
                   dataflows_processed, pending, store, served, later_codes>>

\* Line 25, the ids are exhausted: the script ends.
CrawlDone ==
    /\ pc = "L25"
    /\ di = Len(dataflows_ids)
    /\ pc' = "done"
    /\ UNCHANGED <<queryVars, exc, runs, dataflows_ids, di, dataflow_id,
                   nconstraints, ci, member_values, vi, dataflows_processed,
                   pending, store, served, later_codes>>

\* Lines 37-52: take the next constraint, its first content region and that
\* region's REF_AREA member values.  The constraint is part of what the
\* remote answered at line 28; its content is read here for the first time,
\* so it is drawn here.  Neither subscript is guarded.
NextConstraint ==
    /\ pc = "L37"
    /\ ci < nconstraints
    /\ ci' = ci + 1
    /\ \E constraint \in Constraints :
          /\ served' = served \cup ServedBy(constraint, dataflow_id)
          /\ later_codes' = later_codes \cup LaterCodes(constraint)
          /\ IF constraint.data_content_region = <<>>
             THEN Raise("IndexError") /\ UNCHANGED <<member_values, vi>>
             ELSE LET cr == FirstContentRegion(constraint)
                      members == cr.member
                  IN  IF "REF_AREA" \notin DOMAIN members
                      THEN Raise("KeyError") /\ UNCHANGED <<member_values, vi>>
                      ELSE /\ member_values' = members.REF_AREA
                           /\ vi' = 0
                           /\ pc' = "L55"
                           /\ UNCHANGED exc
    /\ UNCHANGED <<queryVars, runs, dataflows_ids, di, dataflow_id,
                   nconstraints, dataflows_processed, pending, store>>

\* Lines 63-68: the constraints of the dataflow are exhausted.
DataflowProcessed ==
    /\ pc = "L37"
    /\ ci = nconstraints
    /\ dataflows_processed' = dataflows_processed + 1
    /\ pc' = "L25"
    /\ UNCHANGED <<queryVars, exc, runs, dataflows_ids, di, dataflow_id,
                   nconstraints, ci, member_values, vi, pending, store,
                   served, later_codes>>

\* Lines 55-58: cur.execute(INSERT ...) for the next member value.
ExecuteInsert ==
    /\ pc = "L55"
    /\ vi < Len(member_values)
    /\ vi' = vi + 1
    /\ pending' = Insert(pending, member_values[vi + 1], dataflow_id)
    /\ pc' = "L59"
    /\ UNCHANGED <<queryVars, exc, runs, dataflows_ids, di, dataflow_id,
                   nconstraints, ci, member_values, dataflows_processed,
                   store, served, later_codes>>

\* Line 59: con.commit() after every row.
CommitRow ==
    /\ pc = "L59"
    /\ store' = Commit(store, pending)
    /\ pending' = <<>>
    /\ pc' = "L55"
    /\ UNCHANGED <<queryVars, exc, runs, dataflows_ids, di, dataflow_id,
                   nconstraints, ci, member_values, vi, dataflows_processed,
                   served, later_codes>>

\* Line 61: the member values are exhausted.
ConstraintDone ==
    /\ pc = "L55"
    /\ vi = Len(member_values)
    /\ pc' = "L37"
    /\ UNCHANGED <<queryVars, exc, runs, dataflows_ids, di, dataflow_id,
                   nconstraints, ci, member_values, vi, dataflows_processed,
                   pending, store, served, later_codes>>

\* The process is killed at any point: rows not yet committed are rolled back.
Crash ==
    /\ pc \in Running
    /\ pc' = "crashed"
    /\ pending' = <<>>
    /\ UNCHANGED <<queryVars, exc, runs, dataflows_ids, di, dataflow_id,
                   nconstraints, ci, member_values, vi, dataflows_processed,
                   store, served, later_codes>>

\* The script is executed again against the same database file (lines 1-22).
Rerun ==
    /\ pc \in Terminal
    /\ runs < MaxRuns
    /\ runs' = runs + 1
    /\ pc' = "L16"
    /\ exc' = "none"
    /\ dataflows_ids' = <<>>
    /\ di' = 0
    /\ dataflow_id' = ""
    /\ nconstraints' = 0
    /\ ci' = 0
    /\ member_values' = <<>>
    /\ vi' = 0
    /\ dataflows_processed' = 0
    /\ pending' = <<>>
    /\ store' = init_db(store)
    /\ UNCHANGED <<queryVars, served, later_codes>>

(***************************************************************************)
(* Query path: src/app/controller.py and src/ilostat/_query.py             *)
(***************************************************************************)
\* Python's None, and the values a Gradio input hands to the handler.
None == "<None>"
Truthy(v) == v \notin {"", None}

Areas == {"", None, "ITA"}
PeriodArgs == {"", None, "2015"}
DimKeys == {"FREQ", "SEX"}
DimValues == {"", None, "A"}
Selections == UNION {[K -> DimValues] : K \in SUBSET DimKeys}

Requests == [area : Areas, dataflow : DataflowIds, dimensions : Selections,
             start_period : PeriodArgs, end_period : PeriodArgs]

\* The structure the remote declares for a dataflow: its ordered dimension
\* keys.  Only DF_X declares SEX.
Dsd(d) == IF d = "DF_X" THEN <<"REF_AREA", "FREQ", "SEX">>
                        ELSE <<"REF_AREA", "FREQ">>
DeclaredKeys(dsd) == {dsd[i] : i \in 1..Len(dsd)}

\* The observations the remote can return, the result groups (data sets)
\* made of them and the data messages made of those.
MockObs == <<[key |-> [SEX |-> "SEX_T", TIME_PERIOD |-> "2015"], value |-> "5.1"],
            [key |-> [SEX |-> "SEX_T", TIME_PERIOD |-> "2016"], value |-> ""]>>
Groups == {SelectSeq(MockObs, LAMBDA o : o.key.TIME_PERIOD \in P) :
              P \in SUBSET {"2015", "2016"}}
Responses == [status : {"ok"}, data : SeqsUpTo(Groups, MaxGroups)]
                 \cup {[status |-> "failed", data |-> <<>>]}

NoRequest == [area |-> None, dataflow |-> "", dimensions |-> <<>>,
              start_period |-> None, end_period |-> None]
NoQuery == [dataflow |-> "", dimensions |-> <<>>, params |-> <<>>, dsd |-> <<>>]
NoResponse == [status |-> "none", data |-> <<>>]

KeepAll(d) == d

\* controller.py lines 120 and 127-134: {key: value for ... if value}
FilterTruthy(d) == [k \in {j \in DOMAIN d : Truthy(d[j])} |-> d[k]]

\* controller.py lines 123-124: if area: dimensions["REF_AREA"] = area
WithArea(dimensions, area) ==
    IF Truthy(area)
    THEN [k \in DOMAIN dimensions \cup {"REF_AREA"} |->
             IF k = "REF_AREA" THEN area ELSE dimensions[k]]
    ELSE dimensions

\* controller.py lines 127-134
BuildParams(start_period, end_period) ==
    FilterTruthy([startPeriod |-> start_period, endPeriod |-> end_period])

\* _query.py lines 6-19: the fields of a constructed ILOStatQuery.
ILOStatQuery(dataflow, dimensions, params, dsd) ==
    [dataflow |-> dataflow, dimensions |-> dimensions, params |-> params,
     dsd |-> dsd]

\* ILOStat.query (controller.py line 137 calls it): hands its arguments to
\* the ILOStatQuery constructor.
ILOStat_query(dataflow, dimensions, params, dsd) ==
    ILOStatQuery(dataflow, dimensions, params, dsd)

LastGroup(data) == data[Len(data)]

\* _query.py line 39: data_msg.data[0]
FirstGroup(data) == data[1]

\* _query.py line 41: sdmx.to_pandas(data), a series indexed by the
\* observations' keys, in the order of the observations.
to_pandas(data) == [i \in 1..Len(data) |->
                       [index |-> data[i].key, val |-> data[i].value]]

\* _query.py line 43: reset_index(name="value"): the index levels become
\* columns beside a column "value".
reset_index(series) ==
    [i \in 1..Len(series) |->
        [c \in DOMAIN series[i].index \cup {"value"} |->
            IF c = "value" THEN series[i].val ELSE series[i].index[c]]]

\* controller.py lines 98-139 and _query.py lines 6-28: the handler filters
\* the selection and the periods and constructs the query; the constructor
\* creates a client of its own and fetches the dataflow's structure from the
\* remote.  A transport failure of that fetch propagates to the caller.
SetDataframe ==
    /\ qpc = "idle"
    /\ nreq < MaxRequests
    /\ nreq' = nreq + 1
    /\ \E r \in Requests :
          LET dimensions == WithArea(FilterTruthy(r.dimensions), r.area)
              params == BuildParams(r.start_period, r.end_period)
          IN  /\ structFetches' =
                     [structFetches EXCEPT ![r.dataflow] = @ + 1]
              /\ sent' = <<>>
              /\ response' = NoResponse
              /\ result' = <<>>
              /\ \/ /\ request' = r
                    /\ query' = ILOStat_query(r.dataflow, dimensions, params,
                                              Dsd(r.dataflow))
                    /\ outcome' = "none"
                    /\ qpc' = "constructed"
                 \/ /\ request' = r
                    /\ query' = NoQuery
                    /\ outcome' = "TransportError"
                    /\ qpc' = "returned"
    /\ UNCHANGED crawlVars

\* controller.py line 140, _query.py lines 31-37: query.data() issues the
\* remote data query with the query's dimensions and params as they are.
IssueData ==
    /\ qpc = "constructed"
    /\ sent' = <<[dataflow |-> query.dataflow, dsd |-> query.dsd,
                  key |-> query.dimensions, params |-> query.params]>>
    /\ qpc' = "L32"
    /\ UNCHANGED <<crawlVars, request, query, response, outcome, result,
                   structFetches, nreq>>

\* _query.py lines 32-45, controller.py line 142: the remote answers; the
\* first data set of the message is flattened and returned.  Neither a
\* transport failure nor the subscript [0] is guarded.
ReceiveData ==
    /\ qpc = "L32"
    /\ \E data_msg \in Responses :
          /\ response' = data_msg
          /\ IF data_msg.status = "failed"
             THEN outcome' = "TransportError" /\ result' = <<>>
             ELSE IF data_msg.data = <<>>
             THEN outcome' = "IndexError" /\ result' = <<>>
             ELSE LET data == FirstGroup(data_msg.data)
                      series_data == to_pandas(data)
                  IN  /\ result' = reset_index(series_data)
                      /\ outcome' = "ok"
    /\ qpc' = "returned"
    /\ UNCHANGED <<crawlVars, request, query, sent, structFetches, nreq>>

\* The handler's frame is gone and the application waits for the next
\* request; nothing of the request outlives it, as no structure is cached.
Return ==
    /\ qpc = "returned"
    /\ request' = NoRequest
    /\ query' = NoQuery
    /\ sent' = <<>>
    /\ response' = NoResponse
    /\ outcome' = "none"
    /\ result' = <<>>
    /\ qpc' = "idle"
    /\ UNCHANGED <<crawlVars, structFetches, nreq>>

(***************************************************************************)
(* Specifications                                                          *)
(***************************************************************************)
\* The script is about to start on a fresh database (countries.py lines 1-10);
\* the application has served no request (controller.py lines 23-32).
Init ==
    /\ pc = "L16"
    /\ exc = "none"
    /\ runs = 1
    /\ dataflows_ids = <<>>
    /\ di = 0
    /\ dataflow_id = ""
    /\ nconstraints = 0
    /\ ci = 0
    /\ member_values = <<>>
    /\ vi = 0
    /\ dataflows_processed = 0
    /\ pending = <<>>
    /\ store = init_db(EmptyTable)
    /\ served = {}
    /\ later_codes = {}
    /\ qpc = "idle"
    /\ request = NoRequest
    /\ query = NoQuery
    /\ sent = <<>>
    /\ response = NoResponse
    /\ outcome = "none"
    /\ result = <<>>
    /\ structFetches = [d \in DataflowIds |-> 0]
    /\ nreq = 0

\* The crawler script, executed up to MaxRuns times against one database.
SpecCrawl ==
    /\ Init
    /\ [][\/ ListDataflows \/ NextDataflow \/ CrawlDone \/ NextConstraint
          \/ DataflowProcessed \/ ExecuteInsert \/ CommitRow
          \/ ConstraintDone \/ Crash \/ Rerun]_vars

\* One execution of the crawler script on a fresh database.
SpecCrawlOnce ==
    /\ Init
    /\ [][\/ ListDataflows \/ NextDataflow \/ CrawlDone \/ NextConstraint
          \/ DataflowProcessed \/ ExecuteInsert \/ CommitRow
          \/ ConstraintDone \/ Crash]_vars

\* The requests served by the application process.
SpecQuery ==
    /\ Init
    /\ [][SetDataframe \/ IssueData \/ ReceiveData \/ Return]_vars

(***************************************************************************)
(* Properties                                                              *)
(***************************************************************************)
UndeclaredKeys(q) == DOMAIN q.dimensions \ DeclaredKeys(q.dsd)

\* C1: a query whose selection holds a key its dataflow's structure does not
\* declare issues no remote data query and ends with InvalidDimensionKey.
C1_InvalidKeyRejected ==
    (query # NoQuery /\ UndeclaredKeys(query) # {}) =>
        /\ sent = <<>>
        /\ qpc = "returned" => outcome = "InvalidDimensionKey"

\* C2: an error while fetching one dataflow's constraints does not end the
\* crawl: a crawl that listed the catalog and ended without being killed has
\* attempted every dataflow id, and never ends on a fetch error.
C2_FetchFailureIsolated ==
    /\ ~(pc = "raised" /\ exc = "TransportError" /\ di >= 1)
    /\ (pc \in {"done", "raised"} /\ dataflows_ids # <<>>
            /\ exc \in {"none", "TransportError"})
          => di = Len(dataflows_ids)

\* C3: the region index never holds a (region, dataflow) pair more than once,
\* however often the crawl is run.
C3_NoDuplicatePairs == \A r \in Rows : store[r] <= 1

\* C4: a crawl that completes (no fetch failed, every constraint had a
\* REF_AREA member set in its first content region) has written exactly the
\* pairs (code, dataflow id) with code in the REF_AREA member set of the first
\* content region of a constraint of that dataflow.
C4_EntriesExact == pc = "done" => StoreSet = served

\* C4 witness: a completed crawl that wrote entries and met a region code in a
\* later content region only, which is not in the index.
C4_Witness ==
    /\ pc = "done"
    /\ dataflows_processed = NumDataflows
    /\ StoreSet # {}
    /\ \E r \in later_codes : \A d \in DataflowIds : <<r, d>> \notin StoreSet

\* C5: a constraint whose first content region has no REF_AREA member set is
\* skipped and never ends the crawl.
C5_MissingRefAreaSkipped == ~(pc = "raised" /\ exc = "KeyError")

\* C6: the remote structure fetch is performed at most once per dataflow id.
C6_StructureFetchedOnce == \A d \in DataflowIds : structFetches[d] <= 1

\* C7: the key and params handed to the remote data query hold no empty or
\* absent value; they are the query's, which holds exactly the non-empty
\* entries of the request's selection (plus REF_AREA for a non-empty area),
\* and startPeriod / endPeriod each exactly when it is non-empty.
C7_NoEmptyEntries ==
    /\ \A i \in 1..Len(sent) :
          /\ \A k \in DOMAIN sent[i].key : Truthy(sent[i].key[k])
          /\ \A k \in DOMAIN sent[i].params : Truthy(sent[i].params[k])
          /\ sent[i].key = query.dimensions
          /\ sent[i].params = query.params
    /\ query # NoQuery =>
          /\ \A k \in DOMAIN request.dimensions :
                IF Truthy(request.dimensions[k])
                THEN /\ k \in DOMAIN query.dimensions
                     /\ query.dimensions[k] = request.dimensions[k]
                ELSE k \notin DOMAIN query.dimensions
          /\ "startPeriod" \in DOMAIN query.params
                <=> Truthy(request.start_period)
          /\ "endPeriod" \in DOMAIN query.params
                <=> Truthy(request.end_period)
          /\ \A k \in DOMAIN query.params :
                query.params[k] = IF k = "startPeriod"
                                  THEN request.start_period
                                  ELSE request.end_period

\* C7 witness: a remote data query was issued for a request with an empty
\* dimension value, a non-empty one, no start period and an end period.
C7_Witness ==
    /\ Len(sent) = 1
    /\ DOMAIN request.dimensions = {"FREQ", "SEX"}
    /\ request.dimensions["FREQ"] = "A"
    /\ request.dimensions["SEX"] = ""
    /\ request.start_period = None
    /\ request.end_period = "2015"
    /\ DOMAIN sent[1].params = {"endPeriod"}
    /\ "SEX" \notin DOMAIN sent[1].key

\* C8: in every durable state of the index, the entries the remote declares
\* for a dataflow are either all present or all absent.
C8_AtomicPerDataflow ==
    \A d \in DataflowIds :
        LET batch == {e \in served : e[2] = d}
        IN  batch \subseteq StoreSet \/ batch \cap StoreSet = {}

\* C9: a well-formed answer with zero result groups ends the query in the
\* EmptyResult outcome with zero rows, unlike a transport failure.
C9_EmptyResultOutcome ==
    /\ (qpc = "returned" /\ response.status = "ok" /\ response.data = <<>>)
          => (outcome = "EmptyResult" /\ result = <<>>)
    /\ (qpc = "returned" /\ response.status = "failed")
          => outcome # "EmptyResult"

\* C10: when the remote answers with one or more result groups, the rows
\* returned are the observations of group 0, one row each and in order,
\* whatever the later groups hold.
C10_FirstGroupOnly ==
    (qpc = "returned" /\ response.status = "ok" /\ response.data # <<>>) =>
        LET g == response.data[1]
        IN  /\ outcome = "ok"
            /\ Len(result) = Len(g)
            /\ \A i \in 1..Len(g) :
                  result[i] = [SEX |-> g[i].key.SEX,
                               TIME_PERIOD |-> g[i].key.TIME_PERIOD,
                               value |-> g[i].value]

\* C10 witness: an answer of two different groups, the first of two
\* observations, and the two rows returned.
C10_Witness ==
    /\ qpc = "returned"
    /\ outcome = "ok"
    /\ Len(response.data) = 2
    /\ Len(response.data[1]) = 2
    /\ Len(response.data[2]) = 1
    /\ Len(result) = 2

=============================================================================
